---- MODULE Spec2Model ----
(***************************************************************************)
(* Model of DiophantineSystem (Eker's linear Diophantine solver used for   *)
(* AC/ACU matching): insertRow / insertColumn / solve, with the            *)
(* precomputation, the solubility tables, the viability test, the simple   *)
(* and the complex per-row multiset selection and the backtracking driver. *)
(* Vectors are functions on 0..n-1, as the code indexes them.              *)
(***************************************************************************)
EXTENDS Integers, Sequences, FiniteSets, TLC

\* ------------------------------------------------------------------ bounds
MaxRows == 3
MaxColumnSum == 3
MaxBagSum == 5


\* ------------------------------------------------------- program constants
UNBOUNDED == 2147483647
INSOLUBLE == -1

VARIABLES
    rows,            \* vector of Row records (sorted after precompute)
    columns,         \* the column bag, mutated by the search
    columnSum,
    maxColumnValue,
    closed,
    complex,
    failed,
    rowPermute,      \* caller row index -> sorted position
    result,          \* what the last solve() call did: "none", "true", "false", "assert"
    precomputed,     \* history: "no" before the first solve(), then "ok" or "failed"
    origRows,        \* history: the arguments of the insertRow calls, in order
    origColumns,     \* history: the arguments of the insertColumn calls, in order
    emitted,         \* history: the matrices read after the solve() calls that returned true
    repeated,        \* history: some solve() returned true with a matrix already emitted
    pruned,          \* history: <<k, bag>> for every first visit of row k where viable(k) was false
    residuals,       \* history: <<k, bag>> for every solveRowComplex(k, ..) that returned true, bag as it left it
    asserted,        \* history: messages of the assertions that fired inside solve()
    pc               \* where a solve() call stands (StepSpec); Idle between calls

vars == <<rows, columns, columnSum, maxColumnValue, closed, complex, failed,
          rowPermute, result, precomputed, origRows, origColumns, emitted,
          repeated, pruned, residuals, asserted, pc>>

\* ----------------------------------------------------------------- helpers
Min2(a, b) == IF a <= b THEN a ELSE b
Max2(a, b) == IF a >= b THEN a ELSE b

floorDivision(dividend, divisor) == dividend \div divisor
ceilingDivision(dividend, divisor) == -((-dividend) \div divisor)

Len0(v) == Cardinality(DOMAIN v)

\* The vector v written out element by element (the same function as v).
RECURSIVE VectorTo(_, _)
VectorTo(v, n) == IF n <= 0 THEN << >> ELSE VectorTo(v, n - 1) @@ ((n - 1) :> v[n - 1])
Vector(v) == VectorTo(v, Len0(v))

PushBack(v, x) == Vector([i \in 0..Len0(v) |-> IF i < Len0(v) THEN v[i] ELSE x])

RECURSIVE SumTo(_, _)
SumTo(v, n) == IF n <= 0 THEN 0 ELSE v[n - 1] + SumTo(v, n - 1)
SumVec(v) == SumTo(v, Len0(v))

\* A default-constructed Row as insertRow fills it; the fields the code leaves
\* unset until precompute / the first visit are never read before they are set.
NewRow(name, coeff, minSize, maxSize) ==
    [name |-> name, coeff |-> coeff, minSize |-> minSize, maxSize |-> maxSize,
     minProduct |-> 0, maxProduct |-> 0, minLeave |-> 0, maxLeave |-> 0,
     currentSize |-> 0, currentMaxSize |-> 0,
     selection |-> << >>, soluble |-> << >>]

\* The solver object as one record, threaded through the operators below.
Sys == [rows |-> rows, columns |-> columns, columnSum |-> columnSum,
        maxColumnValue |-> maxColumnValue, closed |-> closed,
        complex |-> complex, failed |-> failed, rowPermute |-> rowPermute,
        pruned |-> pruned, residuals |-> residuals, asserted |-> asserted]

Assert0(s, cond, msg) == IF cond THEN s ELSE [s EXCEPT !.asserted = @ \cup {msg}]

\* ------------------------------------------------------------- precompute
rowLt(i, j) ==
    LET t == i.coeff - j.coeff
    IN  IF t # 0 THEN t < 0 ELSE (i.maxSize - j.maxSize) < 0

\* std::sort(rows.begin(), rows.end(), rowLt): any arrangement of the rows
\* that is ordered by rowLt; the order of equivalent rows is unspecified.
sortOutcomes(rs) ==
    LET n == Len0(rs)
        perms == {p \in [0..n-1 -> 0..n-1] : \A a, b \in 0..n-1 : a # b => p[a] # p[b]}
    IN  {Vector([i \in 0..n-1 |-> rs[p[i]]]) : p \in
            {q \in perms : \A a, b \in 0..n-1 :
                a < b => ~rowLt(rs[q[b]], rs[q[a]])}}

\* lines 165-173: UNBOUNDED replaced by columnSum, minProduct and maxProduct set
computeProducts(rs, colSum) ==
    Vector([i \in DOMAIN rs |->
        LET mx == IF rs[i].maxSize = UNBOUNDED THEN colSum ELSE rs[i].maxSize
        IN  [rs[i] EXCEPT !.maxSize = mx,
                          !.minProduct = rs[i].minSize * rs[i].coeff,
                          !.maxProduct = mx * rs[i].coeff]])

\* A variant of computeLeaves that leaves minLeave at 0, so that no row
\* reserves anything for the minimum sizes of the rows after it.
RECURSIVE computeLeaves_noMinLeave(_, _, _, _, _)
computeLeaves_noMinLeave(rs, nrColumns, i, minTotal, maxTotal) ==
    IF i < 0 THEN rs
    ELSE LET r == [rs[i] EXCEPT
                     !.minLeave = 0,
                     !.maxLeave = maxTotal,
                     !.selection = Vector([j \in 0..nrColumns-1 |->
                                       [base |-> 0, extra |-> 0, maxExtra |-> 0]])]
         IN  computeLeaves_noMinLeave([rs EXCEPT ![i] = r], nrColumns, i - 1,
                                      0, maxTotal + r.maxProduct)

\* lines 181-195: minLeave / maxLeave and the zeroed selection vectors,
\* walking the sorted rows from the last to the first
RECURSIVE computeLeaves(_, _, _, _, _)
computeLeaves(rs, nrColumns, i, minTotal, maxTotal) ==
    IF i < 0 THEN rs
    ELSE LET r == [rs[i] EXCEPT
                     !.minLeave = minTotal,
                     !.maxLeave = maxTotal,
                     !.selection = Vector([j \in 0..nrColumns-1 |->
                                       [base |-> 0, extra |-> 0, maxExtra |-> 0]])]
         IN  computeLeaves([rs EXCEPT ![i] = r], nrColumns, i - 1,
                           minTotal + r.minProduct, maxTotal + r.maxProduct)

computePermute(rs) ==
    Vector([nm \in DOMAIN rs |-> CHOOSE i \in DOMAIN rs : rs[i].name = nm])

\* ------------------------------------------------- buildSolubilityVectors
InsolubleVector(mcv) ==
    Vector([v \in 0..mcv |-> [min |-> INSOLUBLE, max |-> INSOLUBLE]])

\* lines 228-239: the last row
RECURSIVE lastRowSoluble(_, _, _, _, _, _)
lastRowSoluble(s, coeff, maxSize, mcv, j, count) ==
    IF j <= mcv /\ count <= maxSize
    THEN lastRowSoluble([s EXCEPT ![j] = [min |-> count, max |-> count]],
                        coeff, maxSize, mcv, j + coeff, count + 1)
    ELSE s

\* lines 257-258: the scan for the largest usable count
RECURSIVE newMaxScan(_, _, _, _)
newMaxScan(prev, k, coeff, newMax) ==
    IF prev[k].min = INSOLUBLE
    THEN newMaxScan(prev, k + coeff, coeff, newMax - 1)
    ELSE newMax

\* A variant of solubleEntry whose max is never capped by maxSize.
solubleEntry_uncapped(prev, next, coeff, maxSize, j) ==
    LET t == j - coeff
    IN  IF t >= 0 /\ next[t].min # INSOLUBLE /\ next[t].min < maxSize
        THEN [min |-> IF prev[j].min = INSOLUBLE THEN next[t].min + 1 ELSE 0,
              max |-> next[t].max + 1]
        ELSE LET x == IF prev[j].min = INSOLUBLE THEN INSOLUBLE ELSE 0
             IN  [min |-> x, max |-> x]

\* lines 250-264: one entry of the recurrence
solubleEntry(prev, next, coeff, maxSize, j) ==
    LET t == j - coeff
    IN  IF t >= 0 /\ next[t].min # INSOLUBLE /\ next[t].min < maxSize
        THEN [min |-> IF prev[j].min = INSOLUBLE THEN next[t].min + 1 ELSE 0,
              max |-> IF next[t].max < maxSize
                      THEN next[t].max + 1
                      ELSE newMaxScan(prev, j - maxSize * coeff, coeff, maxSize)]
        ELSE LET x == IF prev[j].min = INSOLUBLE THEN INSOLUBLE ELSE 0
             IN  [min |-> x, max |-> x]

RECURSIVE nextSoluble(_, _, _, _, _, _)
nextSoluble(prev, next, coeff, maxSize, mcv, j) ==
    IF j > mcv THEN next
    ELSE nextSoluble(prev,
                     [next EXCEPT ![j] = solubleEntry(prev, next, coeff, maxSize, j)],
                     coeff, maxSize, mcv, j + 1)

RECURSIVE remainingSoluble(_, _, _)
remainingSoluble(rs, mcv, i) ==
    IF i < 0 THEN rs
    ELSE remainingSoluble(
            [rs EXCEPT ![i].soluble =
                nextSoluble(rs[i + 1].soluble, InsolubleVector(mcv),
                            rs[i].coeff, rs[i].maxSize, mcv, 0)],
            mcv, i - 1)

buildSolubilityVectors(s) ==
    LET nrRows == Len0(s.rows)
        mcv == s.maxColumnValue
        r == s.rows[nrRows - 1]
        rs1 == [s.rows EXCEPT ![nrRows - 1].soluble =
                   lastRowSoluble(InsolubleVector(mcv), r.coeff, r.maxSize, mcv, 0, 0)]
    IN  [s EXCEPT !.rows = remainingSoluble(rs1, mcv, nrRows - 2)]

\* precompute(), given the arrangement std::sort produced for the rows
precompute(s, sorted) ==
    LET nrRows == Len0(s.rows)
        nrColumns == Len0(s.columns)
        s1 == [s EXCEPT !.closed = TRUE,
                        !.rows = computeProducts(s.rows, s.columnSum)]
        sumOfMinProducts == SumVec([i \in DOMAIN s1.rows |-> s1.rows[i].minProduct])
        sumOfMaxProducts == SumVec([i \in DOMAIN s1.rows |-> s1.rows[i].maxProduct])
    IN  IF sumOfMinProducts > s.columnSum \/ sumOfMaxProducts < s.columnSum
        THEN [ok |-> FALSE, s |-> [s1 EXCEPT !.failed = TRUE]]
        ELSE LET classify(s2) ==
                     IF s2.rows[nrRows - 1].coeff > 1
                        \/ s2.rows[nrRows - 1].maxSize < s.maxColumnValue
                     THEN LET check(s3) ==
                                  IF \E j \in 0..nrColumns-1 :
                                        s3.rows[0].soluble[s3.columns[j]].min < 0
                                  THEN [ok |-> FALSE, s |-> [s3 EXCEPT !.failed = TRUE]]
                                  ELSE [ok |-> TRUE, s |-> [s3 EXCEPT !.complex = TRUE]]
                          IN  check(buildSolubilityVectors(s2))
                     ELSE [ok |-> TRUE, s |-> s2]
                 permute(rs2) ==
                     classify([s1 EXCEPT !.rows = rs2, !.rowPermute = computePermute(rs2)])
             IN  permute(computeLeaves(sorted, nrColumns, nrRows - 1, 0, 0))

\* ------------------------------------------------------------------ viable
\* lines 286-294: is there a prefix of the columns >= lowerLimit that sums to limit
RECURSIVE viableScan(_, _, _, _, _)
viableScan(cols, lowerLimit, limit, j, localColumnSum) ==
    IF j >= Len0(cols) THEN FALSE
    ELSE IF cols[j] >= lowerLimit
         THEN IF localColumnSum + cols[j] >= limit THEN TRUE
              ELSE viableScan(cols, lowerLimit, limit, j + 1, localColumnSum + cols[j])
         ELSE viableScan(cols, lowerLimit, limit, j + 1, localColumnSum)

RECURSIVE viableFrom(_, _, _)
viableFrom(s, i, localSumOfMinProducts) ==
    IF i > Len0(s.rows) - 2 THEN TRUE
    ELSE LET t == s.rows[i].minProduct
         IN  IF t > 0
             THEN /\ viableScan(s.columns, s.rows[i].coeff, localSumOfMinProducts + t, 0, 0)
                  /\ viableFrom(s, i + 1, localSumOfMinProducts + t)
             ELSE viableFrom(s, i + 1, localSumOfMinProducts)

viable(s, row_idx) == viableFrom(s, row_idx, 0)

\* ------------------------------------------------------------ simple case
\* lines 342-352: make up the selection size from the earliest elements
RECURSIVE selectForwards(_, _, _, _, _)
selectForwards(r, bag, a, j, undone) ==
    IF undone <= 0 THEN [ok |-> TRUE, r |-> r, bag |-> bag, asserted |-> a]
    ELSE IF j >= Len0(bag)
         THEN [ok |-> TRUE, r |-> r, bag |-> bag, asserted |-> a \cup {"overran bag"}]
         ELSE LET t == Min2(undone, r.selection[j].maxExtra)
              IN  IF t > 0
                  THEN selectForwards([r EXCEPT !.selection[j].extra = t],
                                      [bag EXCEPT ![j] = @ - t * r.coeff],
                                      a, j + 1, undone - t)
                  ELSE selectForwards(r, bag, a, j + 1, undone)

\* A variant of selectUndo that lifts the first element below its maxExtra
\* whether or not anything has been undone before it.
RECURSIVE selectUndo_eager(_, _, _, _, _)
selectUndo_eager(r, bag, a, j, undone) ==
    IF j >= Len0(bag) THEN [ok |-> FALSE, r |-> r, bag |-> bag, asserted |-> a]
    ELSE LET t == r.selection[j].extra
         IN  IF t < r.selection[j].maxExtra
             THEN selectForwards([r EXCEPT !.selection[j].extra = t + 1],
                                 [bag EXCEPT ![j] = @ - r.coeff],
                                 a, 0, undone - 1)
             ELSE IF t > 0
                  THEN selectUndo_eager([r EXCEPT !.selection[j].extra = 0],
                                        [bag EXCEPT ![j] = @ + t * r.coeff],
                                        a, j + 1, undone + t)
                  ELSE selectUndo_eager(r, bag, a, j + 1, undone)

\* lines 321-335: undo the previous selection until some element can take one more
RECURSIVE selectUndo(_, _, _, _, _)
selectUndo(r, bag, a, j, undone) ==
    IF j >= Len0(bag) THEN [ok |-> FALSE, r |-> r, bag |-> bag, asserted |-> a]
    ELSE LET t == r.selection[j].extra
             a1 == IF t <= r.selection[j].maxExtra THEN a
                   ELSE a \cup {"extra > maxExtra"}
         IN  IF undone > 0 /\ t < r.selection[j].maxExtra
             THEN selectForwards([r EXCEPT !.selection[j].extra = t + 1],
                                 [bag EXCEPT ![j] = @ - r.coeff],
                                 a1, 0, undone - 1)
             ELSE IF t > 0
                  THEN selectUndo([r EXCEPT !.selection[j].extra = 0],
                                  [bag EXCEPT ![j] = @ + t * r.coeff],
                                  a1, j + 1, undone + t)
                  ELSE selectUndo(r, bag, a1, j + 1, undone)

multisetSelect(r, bag, findFirst) ==
    IF ~findFirst
    THEN IF r.currentSize > 0
         THEN selectUndo(r, bag, {}, 0, 0)
         ELSE [ok |-> FALSE, r |-> r, bag |-> bag, asserted |-> {}]
    ELSE selectForwards(r, bag, {}, 0, r.currentSize)

\* lines 358-363
solveLastRowSimple(s) ==
    LET last == Len0(s.rows) - 1
        sel == s.rows[last].selection
    IN  [s EXCEPT !.rows[last].selection =
            Vector([i \in DOMAIN s.columns |->
                       [sel[i] EXCEPT !.extra = s.columns[i]]])]

\* Writes the outcome of a multiset selection for row row_idx back into the solver.
Store(s, row_idx, m) ==
    [ok |-> m.ok,
     s |-> [s EXCEPT !.rows[row_idx] = m.r, !.columns = m.bag,
                     !.asserted = @ \cup m.asserted]]

\* lines 377-391: the multiset of the first visit
simpleMultiset(r, cols) ==
    [r EXCEPT !.selection =
        Vector([i \in DOMAIN cols |->
            [r.selection[i] EXCEPT !.extra = 0,
                                   !.maxExtra = IF cols[i] >= r.coeff
                                                THEN cols[i] \div r.coeff ELSE 0]])]

\* A variant of solveRowSimple that works through the sizes of the window from
\* the largest to the smallest.
solveRowSimple_largestFirst(s, row_idx, findFirst) ==
    LET r == s.rows[row_idx]
    IN  IF findFirst
        THEN IF ~viable(s, row_idx)
             THEN [ok |-> FALSE,
                   s |-> [s EXCEPT !.pruned = @ \cup {<<row_idx, s.columns>>}]]
             ELSE LET columnTotal == SumVec(s.columns)
                      r1 == simpleMultiset(r, s.columns)
                      maxSum == SumVec([i \in DOMAIN s.columns |-> r1.selection[i].maxExtra])
                      minSize == Max2(r.minSize,
                                      ceilingDivision(columnTotal - r.maxLeave, r.coeff))
                      maxSize == Min2(Min2(maxSum, r.maxSize),
                                      floorDivision(columnTotal - r.minLeave, r.coeff))
                  IN  IF minSize > maxSize
                      THEN [ok |-> FALSE, s |-> [s EXCEPT !.rows[row_idx] = r1]]
                      ELSE Store(s, row_idx,
                                 multisetSelect([r1 EXCEPT !.currentSize = maxSize,
                                                           !.currentMaxSize = minSize],
                                                s.columns, TRUE))
        ELSE LET advance(m) ==
                     IF m.ok THEN Store(s, row_idx, m)
                     ELSE IF m.r.currentSize = m.r.currentMaxSize
                          THEN Store(s, row_idx, m)
                          ELSE Store(s, row_idx,
                                     [multisetSelect([m.r EXCEPT !.currentSize = @ - 1],
                                                     m.bag, TRUE)
                                         EXCEPT !.asserted = @ \cup m.asserted])
             IN  advance(multisetSelect(r, s.columns, FALSE))

solveRowSimple(s, row_idx, findFirst) ==
    LET r == s.rows[row_idx]
    IN  IF findFirst
        THEN IF ~viable(s, row_idx)
             THEN [ok |-> FALSE,
                   s |-> [s EXCEPT !.pruned = @ \cup {<<row_idx, s.columns>>}]]
             ELSE LET columnTotal == SumVec(s.columns)
                      r1 == simpleMultiset(r, s.columns)
                      maxSum == SumVec([i \in DOMAIN s.columns |-> r1.selection[i].maxExtra])
                      minSize == Max2(r.minSize,
                                      ceilingDivision(columnTotal - r.maxLeave, r.coeff))
                      maxSize == Min2(Min2(maxSum, r.maxSize),
                                      floorDivision(columnTotal - r.minLeave, r.coeff))
                  IN  IF minSize > maxSize
                      THEN [ok |-> FALSE, s |-> [s EXCEPT !.rows[row_idx] = r1]]
                      ELSE Store(s, row_idx,
                                 multisetSelect([r1 EXCEPT !.currentSize = minSize,
                                                           !.currentMaxSize = maxSize],
                                                s.columns, TRUE))
        ELSE LET advance(m) ==
                     IF m.ok THEN Store(s, row_idx, m)
                     ELSE IF m.r.currentSize = m.r.currentMaxSize
                          THEN Store(s, row_idx, m)
                          ELSE Store(s, row_idx,
                                     [multisetSelect([m.r EXCEPT !.currentSize = @ + 1],
                                                     m.bag, TRUE)
                                         EXCEPT !.asserted = @ \cup m.asserted])
             IN  advance(multisetSelect(r, s.columns, FALSE))

\* lines 419-430: the forward / backward walk over rows 0..penultimate
RECURSIVE simpleWalk(_, _, _)
simpleWalk(s, i, findFirst) ==
    LET penultimate == Len0(s.rows) - 2
        after(x) ==
            IF x.ok
            THEN IF i = penultimate THEN x ELSE simpleWalk(x.s, i + 1, TRUE)
            ELSE IF i = 0 THEN x ELSE simpleWalk(x.s, i - 1, FALSE)
    IN  after(solveRowSimple(s, i, findFirst))

\* A variant of solveSimple that does not record the failure.
solveSimple_unmarked(s, findFirst) ==
    LET finish(x) ==
            IF x.ok
            THEN [ok |-> TRUE, s |-> solveLastRowSimple(x.s)]
            ELSE [ok |-> FALSE, s |-> x.s]
    IN  finish(IF Len0(s.rows) > 1
               THEN simpleWalk(s, IF findFirst THEN 0 ELSE Len0(s.rows) - 2, findFirst)
               ELSE [ok |-> findFirst, s |-> s])

solveSimple(s, findFirst) ==
    LET finish(x) ==
            IF x.ok
            THEN [ok |-> TRUE, s |-> solveLastRowSimple(x.s)]
            ELSE [ok |-> FALSE, s |-> [x.s EXCEPT !.failed = TRUE]]
    IN  finish(IF Len0(s.rows) > 1
               THEN simpleWalk(s, IF findFirst THEN 0 ELSE Len0(s.rows) - 2, findFirst)
               ELSE [ok |-> findFirst, s |-> s])

\* ----------------------------------------------------------- complex case
RECURSIVE complexBacktrack(_, _, _, _, _, _)
RECURSIVE complexForwards(_, _, _, _, _, _)

\* lines 466-475: the first lift e in 1..undone that leaves a soluble residual
\* (0 when there is none)
RECURSIVE firstSolubleLift(_, _, _, _, _)
firstSolubleLift(c, coeff, soluble, undone, e) ==
    IF e > undone THEN 0
    ELSE IF soluble[c - e * coeff].min # INSOLUBLE THEN e
         ELSE firstSolubleLift(c, coeff, soluble, undone, e + 1)

\* A variant of complexBacktrackPass that goes to forwards without having
\* moved the selection on.
complexBacktrackPass_stay(r, bag, soluble, a, j, undone) ==
    [goto |-> "forwards", r |-> r, bag |-> bag, asserted |-> a, undone |-> 0]

\* lines 461-483: one run of the loop at backtrack:, from element j on; it ends
\* at "goto forwards" (an element was lifted) or falls out of the loop
RECURSIVE complexBacktrackPass(_, _, _, _, _, _)
complexBacktrackPass(r, bag, soluble, a, j, undone) ==
    IF j >= Len0(bag)
    THEN [goto |-> "fail", r |-> r, bag |-> bag, asserted |-> a, undone |-> undone]
    ELSE LET t == r.selection[j].extra
             a1 == IF t <= r.selection[j].maxExtra THEN a
                   ELSE a \cup {"extra > maxExtra"}
             probing == undone > 0 /\ t < r.selection[j].maxExtra
             e == IF probing
                  THEN firstSolubleLift(bag[j], r.coeff, soluble, undone, 1)
                  ELSE 0
             tried == IF e > 0 THEN e ELSE IF probing THEN undone ELSE 0
             a2 == IF t + tried <= r.selection[j].maxExtra THEN a1
                   ELSE a1 \cup {"t + e > maxExtra"}
         IN  IF e > 0
             THEN [goto |-> "forwards",
                   r |-> [r EXCEPT !.selection[j].extra = t + e],
                   bag |-> [bag EXCEPT ![j] = @ - e * r.coeff],
                   asserted |-> a2, undone |-> undone - e]
             ELSE IF t > 0
                  THEN complexBacktrackPass([r EXCEPT !.selection[j].extra = 0],
                                            [bag EXCEPT ![j] = @ + t * r.coeff],
                                            soluble, a2, j + 1, undone + t)
                  ELSE complexBacktrackPass(r, bag, soluble, a2, j + 1, undone)

\* A variant of complexForwardsPass that accepts the element filled only in
\* part without looking its residual up in the next row's solubility vector.
RECURSIVE complexForwardsPass_unchecked(_, _, _, _, _, _)
complexForwardsPass_unchecked(r, bag, soluble, a, j, undone) ==
    IF undone <= 0
    THEN [goto |-> "done", r |-> r, bag |-> bag, asserted |-> a, undone |-> 0]
    ELSE IF j >= Len0(bag)
         THEN [goto |-> "done", r |-> r, bag |-> bag,
               asserted |-> a \cup {"overran bag"}, undone |-> undone]
         ELSE LET t == r.selection[j].maxExtra
              IN  IF t <= undone
                  THEN IF t > 0
                       THEN complexForwardsPass_unchecked(
                                [r EXCEPT !.selection[j].extra = t],
                                [bag EXCEPT ![j] = @ - t * r.coeff],
                                soluble, a, j + 1, undone - t)
                       ELSE complexForwardsPass_unchecked(r, bag, soluble, a, j + 1, undone)
                  ELSE [goto |-> "done",
                        r |-> [r EXCEPT !.selection[j].extra = undone],
                        bag |-> [bag EXCEPT ![j] = @ - undone * r.coeff],
                        asserted |-> a, undone |-> 0]

\* lines 488-506: one run of the loop at forwards:, from element j on; it ends
\* at "goto backtrack" (the element filled only in part is left insoluble) or
\* with the size made up
RECURSIVE complexForwardsPass(_, _, _, _, _, _)
complexForwardsPass(r, bag, soluble, a, j, undone) ==
    IF undone <= 0
    THEN [goto |-> "done", r |-> r, bag |-> bag, asserted |-> a, undone |-> 0]
    ELSE IF j >= Len0(bag)
         THEN [goto |-> "done", r |-> r, bag |-> bag,
               asserted |-> a \cup {"overran bag"}, undone |-> undone]
         ELSE LET t == r.selection[j].maxExtra
              IN  IF t <= undone
                  THEN IF t > 0
                       THEN complexForwardsPass([r EXCEPT !.selection[j].extra = t],
                                                [bag EXCEPT ![j] = @ - t * r.coeff],
                                                soluble, a, j + 1, undone - t)
                       ELSE complexForwardsPass(r, bag, soluble, a, j + 1, undone)
                  ELSE LET r1 == [r EXCEPT !.selection[j].extra = undone]
                           bag1 == [bag EXCEPT ![j] = @ - undone * r.coeff]
                       IN  [goto |-> IF soluble[bag1[j]].min = INSOLUBLE
                                     THEN "backtrack" ELSE "done",
                            r |-> r1, bag |-> bag1, asserted |-> a, undone |-> 0]

\* backtrack: ... goto forwards / return false
complexBacktrack(r, bag, soluble, a, j, undone) ==
    LET after(p) ==
            IF p.goto = "forwards"
            THEN complexForwards(p.r, p.bag, soluble, p.asserted, 0, p.undone)
            ELSE [ok |-> FALSE, r |-> p.r, bag |-> p.bag, asserted |-> p.asserted]
    IN  after(complexBacktrackPass(r, bag, soluble, a, j, undone))

\* forwards: ... goto backtrack (with undone = 0) / return true
complexForwards(r, bag, soluble, a, j, undone) ==
    LET after(p) ==
            IF p.goto = "backtrack"
            THEN complexBacktrack(p.r, p.bag, soluble, p.asserted, 0, 0)
            ELSE [ok |-> TRUE, r |-> p.r, bag |-> p.bag, asserted |-> p.asserted]
    IN  after(complexForwardsPass(r, bag, soluble, a, j, undone))

multisetComplex(r, bag, soluble, findFirst) ==
    IF ~findFirst
    THEN IF r.currentSize > 0
         THEN complexBacktrack(r, bag, soluble, {}, 0, 0)
         ELSE [ok |-> FALSE, r |-> r, bag |-> bag, asserted |-> {}]
    ELSE complexForwards(r, bag, soluble, {}, 0, r.currentSize)

\* A variant of solveLastRowComplex that hands the last row the residual itself,
\* as solveLastRowSimple does, instead of the count soluble[residual].min.
solveLastRowComplex_residual(s) ==
    LET last == Len0(s.rows) - 1
        sel == s.rows[last].selection
    IN  [s EXCEPT !.rows[last].selection =
            Vector([i \in DOMAIN s.columns |->
                       [sel[i] EXCEPT !.extra = s.columns[i]]])]

\* lines 513-522
solveLastRowComplex(s) ==
    LET last == Len0(s.rows) - 1
        soluble == s.rows[last].soluble
        sel == s.rows[last].selection
        s1 == [s EXCEPT !.rows[last].selection =
                  Vector([i \in DOMAIN s.columns |->
                      [sel[i] EXCEPT !.extra = soluble[s.columns[i]].min]])]
    IN  Assert0(s1, \A i \in DOMAIN s.columns : soluble[s.columns[i]].min # INSOLUBLE,
                "solubility bug")

\* lines 549-564: base, extra and maxExtra of the first visit
complexMultiset(r, cols) ==
    [r EXCEPT !.selection =
        Vector([i \in DOMAIN cols |->
            [base |-> r.soluble[cols[i]].min,
             extra |-> 0,
             maxExtra |-> r.soluble[cols[i]].max - r.soluble[cols[i]].min]])]

\* A variant of applyBase that takes the base out but never puts it back.
applyBase_oneWay(r, cols, sign) ==
    Vector([i \in DOMAIN cols |->
        IF r.selection[i].base > 0 /\ sign < 0
        THEN cols[i] - r.selection[i].base * r.coeff
        ELSE cols[i]])

\* lines 571-576 (sign = -1) and 586-591 (sign = 1): take out / put back the base
applyBase(r, cols, sign) ==
    Vector([i \in DOMAIN cols |->
        IF r.selection[i].base > 0
        THEN cols[i] + sign * r.selection[i].base * r.coeff
        ELSE cols[i]])

\* lines 582-592: try the sizes currentSize..currentMaxSize, then give up
RECURSIVE complexSizes(_, _, _)
complexSizes(s, rowNr, a) ==
    LET r == s.rows[rowNr]
    IN  IF r.currentSize <= r.currentMaxSize
        THEN LET try(m) ==
                     IF m.ok
                     THEN Store(s, rowNr, [m EXCEPT !.asserted = @ \cup a])
                     ELSE complexSizes(
                             [s EXCEPT !.rows[rowNr] =
                                           [m.r EXCEPT !.currentSize = @ + 1],
                                       !.columns = m.bag],
                             rowNr, a \cup m.asserted)
             IN  try(multisetComplex(r, s.columns, s.rows[rowNr + 1].soluble, TRUE))
        ELSE LET cols == applyBase(r, s.columns, 1)
             IN  [ok |-> FALSE,
                  s |-> Assert0([s EXCEPT !.columns = cols, !.asserted = @ \cup a],
                                \A i \in DOMAIN cols : cols[i] <= s.maxColumnValue,
                                "value too big")]

\* lines 545-577: the first visit after viable(): multiset, window, base taken out;
\* ok is false when the window is empty (line 567-568)
complexFirstVisit(s, rowNr) ==
    LET r == s.rows[rowNr]
        coeff == r.coeff
        cols == s.columns
        r1 == complexMultiset(r, cols)
        columnTotal == SumVec(cols)
        minSum == SumVec([i \in DOMAIN cols |-> r.soluble[cols[i]].min])
        maxSum == SumVec([i \in DOMAIN cols |-> r.soluble[cols[i]].max])
        sa == Assert0(
                Assert0(s, \A i \in DOMAIN cols :
                               r.soluble[cols[i]].min # INSOLUBLE,
                        "min insoluble"),
                \A i \in DOMAIN cols : r.soluble[cols[i]].max # INSOLUBLE,
                "max insoluble")
        minSize == Max2(Max2(minSum, r.minSize),
                        ceilingDivision(columnTotal - r.maxLeave, coeff))
        maxSize == Min2(Min2(maxSum, r.maxSize),
                        floorDivision(columnTotal - r.minLeave, coeff))
    IN  IF minSize > maxSize
        THEN [ok |-> FALSE, s |-> [sa EXCEPT !.rows[rowNr] = r1]]
        ELSE LET r2 == [r1 EXCEPT !.currentSize = minSize - minSum,
                                  !.currentMaxSize = maxSize - minSum]
                 cols2 == applyBase(r2, cols, -1)
             IN  [ok |-> TRUE,
                  s |-> Assert0([sa EXCEPT !.rows[rowNr] = r2, !.columns = cols2],
                                \A i \in DOMAIN cols2 : cols2[i] >= 0,
                                "value -ve")]

solveRowComplex(s, rowNr, findFirst) ==
    LET r == s.rows[rowNr]
        return(x) ==
            IF x.ok
            THEN [x EXCEPT !.s.residuals = @ \cup {<<rowNr, x.s.columns>>}]
            ELSE x
    IN  return(IF findFirst
        THEN IF ~viable(s, rowNr)
             THEN [ok |-> FALSE,
                   s |-> [s EXCEPT !.pruned = @ \cup {<<rowNr, s.columns>>}]]
             ELSE LET start(v) == IF v.ok THEN complexSizes(v.s, rowNr, {}) ELSE v
                  IN  start(complexFirstVisit(s, rowNr))
        ELSE LET advance(m) ==
                     IF m.ok THEN Store(s, rowNr, m)
                     ELSE complexSizes(
                             [s EXCEPT !.rows[rowNr] =
                                           [m.r EXCEPT !.currentSize = @ + 1],
                                       !.columns = m.bag],
                             rowNr, m.asserted)
             IN  advance(multisetComplex(r, s.columns, s.rows[rowNr + 1].soluble, FALSE)))

\* lines 600-611: the forward / backward walk over rows 0..penultimate
RECURSIVE complexWalk(_, _, _)
complexWalk(s, i, findFirst) ==
    LET penultimate == Len0(s.rows) - 2
        after(x) ==
            IF x.ok
            THEN IF i = penultimate THEN x ELSE complexWalk(x.s, i + 1, TRUE)
            ELSE IF i = 0 THEN x ELSE complexWalk(x.s, i - 1, FALSE)
    IN  after(solveRowComplex(s, i, findFirst))

\* A variant of solveComplex that takes a one-row system to have a further
\* solution at every call.
solveComplex_oneRowAgain(s, findFirst) ==
    LET finish(x) ==
            IF x.ok
            THEN [ok |-> TRUE, s |-> solveLastRowComplex(x.s)]
            ELSE [ok |-> FALSE, s |-> [x.s EXCEPT !.failed = TRUE]]
    IN  finish(IF Len0(s.rows) > 1
               THEN complexWalk(s, IF findFirst THEN 0 ELSE Len0(s.rows) - 2, findFirst)
               ELSE [ok |-> TRUE, s |-> s])

solveComplex(s, findFirst) ==
    LET finish(x) ==
            IF x.ok
            THEN [ok |-> TRUE, s |-> solveLastRowComplex(x.s)]
            ELSE [ok |-> FALSE, s |-> [x.s EXCEPT !.failed = TRUE]]
    IN  finish(IF Len0(s.rows) > 1
               THEN complexWalk(s, IF findFirst THEN 0 ELSE Len0(s.rows) - 2, findFirst)
               ELSE [ok |-> findFirst, s |-> s])

\* int solution(int row, int column): the entry of M in the caller's row order
solution(s, row, column) ==
    LET sel == s.rows[s.rowPermute[row]].selection[column]
    IN  sel.base + sel.extra

Matrix(s) ==
    Vector([i \in DOMAIN s.rows |->
               Vector([j \in DOMAIN s.columns |-> solution(s, i, j)])])

\* bool solve(), given the arrangement std::sort would produce on a first call
solve(s, sorted) ==
    LET findFirst == ~s.closed
        return(x) ==
            [ret |-> IF x.ok THEN "true" ELSE "false", s |-> x.s,
             precomputed |-> IF findFirst THEN "ok" ELSE "skipped"]
        run(pre) ==
            IF ~pre.ok THEN [ret |-> "false", s |-> pre.s, precomputed |-> "failed"]
            ELSE IF pre.s.failed
                 THEN [ret |-> "assert", s |-> pre.s, precomputed |-> "skipped"]
                 ELSE return(IF pre.s.complex THEN solveComplex(pre.s, findFirst)
                             ELSE solveSimple(pre.s, findFirst))
    IN  run(IF findFirst THEN precompute(s, sorted) ELSE [ok |-> TRUE, s |-> s])

\* ----------------------------------------------------------------- actions
At(label, i, findFirst, undone) ==
    [at |-> label, i |-> i, findFirst |-> findFirst, undone |-> undone]

Idle == At("idle", 0, FALSE, 0)

Init ==
    /\ rows = << >>
    /\ columns = << >>
    /\ columnSum = 0
    /\ maxColumnValue = 0
    /\ closed = FALSE
    /\ complex = FALSE
    /\ failed = FALSE
    /\ rowPermute = << >>
    /\ result = "none"
    /\ precomputed = "no"
    /\ origRows = << >>
    /\ origColumns = << >>
    /\ emitted = {}
    /\ repeated = FALSE
    /\ pruned = {}
    /\ residuals = {}
    /\ asserted = {}
    /\ pc = Idle

\* <<coeff, minSize, maxSize>>
RowKinds ==
    {<<1, 1, 1>>, <<1, 0, 2>>,
     <<2, 0, 1>>, <<2, 1, 1>>, <<2, 0, UNBOUNDED>>}

InsertRow ==
    /\ ~closed
    /\ Len0(rows) < MaxRows
    /\ \E k \in RowKinds :
          /\ rows' = PushBack(rows, NewRow(Len0(rows), k[1], k[2], k[3]))
          /\ origRows' = PushBack(origRows,
                                  [coeff |-> k[1], minSize |-> k[2], maxSize |-> k[3]])
    /\ UNCHANGED <<columns, columnSum, maxColumnValue, closed, complex, failed,
                   rowPermute, result, precomputed, origColumns, emitted, repeated,
                   pruned, residuals, asserted, pc>>

InsertColumn ==
    /\ ~closed
    /\ \E value \in 1..(MaxColumnSum - columnSum) :
          /\ columns' = PushBack(columns, value)
          /\ columnSum' = columnSum + value
          /\ maxColumnValue' = IF value > maxColumnValue THEN value ELSE maxColumnValue
          /\ origColumns' = PushBack(origColumns, value)
    /\ UNCHANGED <<rows, closed, complex, failed, rowPermute, result, precomputed,
                   origRows, emitted, repeated, pruned, residuals, asserted, pc>>

Solve ==
    /\ Len0(rows) > 0
    /\ Len0(columns) > 0
    /\ \E sorted \in (IF closed THEN {rows}
                      ELSE sortOutcomes(computeProducts(rows, columnSum))) :
          \E x \in {solve(Sys, sorted)} :
              /\ rows' = x.s.rows
              /\ columns' = x.s.columns
              /\ closed' = x.s.closed
              /\ complex' = x.s.complex
              /\ failed' = x.s.failed
              /\ rowPermute' = x.s.rowPermute
              /\ pruned' = x.s.pruned
              /\ residuals' = x.s.residuals
              /\ asserted' = x.s.asserted
              /\ result' = x.ret
              /\ precomputed' = IF x.precomputed = "skipped" THEN precomputed
                                ELSE x.precomputed
              /\ emitted' = IF x.ret = "true" THEN emitted \cup {Matrix(x.s)} ELSE emitted
              /\ repeated' = (repeated \/ (x.ret = "true" /\ Matrix(x.s) \in emitted))
    /\ UNCHANGED <<columnSum, maxColumnValue, origRows, origColumns, pc>>

Next == InsertRow \/ InsertColumn \/ Solve

Spec == Init /\ [][Next]_vars

\* ------------------------------------------------- reference definitions
\* The caller's view: the inserted rows with UNBOUNDED read as columnSum.
CallerRows ==
    [i \in DOMAIN origRows |->
        [coeff |-> origRows[i].coeff,
         minSize |-> origRows[i].minSize,
         maxSize |-> IF origRows[i].maxSize = UNBOUNDED THEN columnSum
                     ELSE origRows[i].maxSize]]

\* The column vectors (k_0..k_{n-1}) with sum of rs[i].coeff * k_i = c.
ColumnSplits(rs, c) ==
    {k \in [DOMAIN rs -> 0..c] :
        SumVec([i \in DOMAIN rs |-> rs[i].coeff * k[i]]) = c}

\* All nonnegative matrices M[i][j] over rows rs and bag with column balance
\* and every row sum within [rs[i].minSize, rs[i].maxSize], by brute force.
Assignments(rs, bag) ==
    LET splits == UNION {ColumnSplits(rs, bag[j]) : j \in DOMAIN bag}
        byColumn == {t \in [DOMAIN bag -> splits] :
                        /\ \A j \in DOMAIN bag : t[j] \in ColumnSplits(rs, bag[j])
                        /\ \A i \in DOMAIN rs :
                              LET size == SumVec([j \in DOMAIN bag |-> t[j][i]])
                              IN  rs[i].minSize <= size /\ size <= rs[i].maxSize}
    IN  {Vector([i \in DOMAIN rs |-> Vector([j \in DOMAIN bag |-> t[j][i]])]) :
            t \in byColumn}

\* The sorted rows k..n-1, re-indexed from 0.
Suffix(rs, k) == Vector([i \in 0..(Len0(rs) - 1 - k) |-> rs[i + k]])

\* The counts k_i that row i can take at a column of magnitude v so that rows
\* i+1..n-1 absorb the rest, each row r using at most rs[r].maxSize copies.
RECURSIVE Absorbable(_, _, _)
Absorbable(rs, i, v) ==
    IF i >= Len0(rs) THEN v = 0
    ELSE \E k \in 0..Min2(rs[i].maxSize, v \div rs[i].coeff) :
            Absorbable(rs, i + 1, v - k * rs[i].coeff)

Counts(rs, i, v) ==
    {k \in 0..Min2(rs[i].maxSize, v \div rs[i].coeff) :
        Absorbable(rs, i + 1, v - k * rs[i].coeff)}

SetMin(S) == CHOOSE x \in S : \A y \in S : x <= y
SetMax(S) == CHOOSE x \in S : \A y \in S : x >= y

\* ------------------------------------------- one row of a simple system
\* The simple per-row enumeration on its own: a two-row system that precompute
\* has classified as simple, then the first visit of sorted row 0 and its
\* successive advances, as solveSimple issues them for penultimate = 0.  emitted collects the selections (extra_0..extra_{m-1}).
RECURSIVE BagsUpTo(_)
BagsUpTo(n) ==
    IF n <= 0 THEN {<< >>}
    ELSE LET smaller == BagsUpTo(n - 1)
         IN  smaller \cup
             UNION {{PushBack(b, v) : v \in 1..(n - SumVec(b))} : b \in smaller}

\* <<coeff, minSize, maxSize>> of the two rows inserted
EnumeratedRows ==
    {<<1, 0, 1>>, <<1, 0, 2>>, <<1, 1, 2>>, <<1, 1, 3>>, <<1, 2, 2>>, <<1, 0, 3>>,
     <<1, 1, 4>>, <<1, 0, UNBOUNDED>>, <<1, 1, UNBOUNDED>>, <<1, 2, UNBOUNDED>>,
     <<2, 0, 2>>, <<2, 1, UNBOUNDED>>}

Selection(r) == Vector([j \in DOMAIN r.selection |-> r.selection[j].extra])

RowInit ==
    \E k \in EnumeratedRows, l \in EnumeratedRows, bag \in BagsUpTo(MaxBagSum) \ {<< >>} :
        LET inserted == PushBack(PushBack(<< >>, NewRow(0, k[1], k[2], k[3])),
                                 NewRow(1, l[1], l[2], l[3]))
            s0 == [rows |-> inserted, columns |-> bag, columnSum |-> SumVec(bag),
                   maxColumnValue |-> SetMax({bag[j] : j \in DOMAIN bag}),
                   closed |-> FALSE, complex |-> FALSE, failed |-> FALSE,
                   rowPermute |-> << >>, pruned |-> {}, residuals |-> {},
                   asserted |-> {}]
        IN  \E sorted \in sortOutcomes(computeProducts(inserted, s0.columnSum)) :
            \E pre \in {precompute(s0, sorted)} :
                /\ pre.ok
                /\ ~pre.s.complex
                /\ rows = pre.s.rows
                /\ columns = bag
                /\ columnSum = s0.columnSum
                /\ maxColumnValue = s0.maxColumnValue
                /\ closed = pre.s.closed
                /\ complex = pre.s.complex
                /\ failed = pre.s.failed
                /\ rowPermute = pre.s.rowPermute
                /\ result = "none"
                /\ precomputed = "ok"
                /\ origRows = PushBack(PushBack(<< >>,
                                  [coeff |-> k[1], minSize |-> k[2], maxSize |-> k[3]]),
                                  [coeff |-> l[1], minSize |-> l[2], maxSize |-> l[3]])
                /\ origColumns = bag
                /\ emitted = {}
                /\ repeated = FALSE
                /\ pruned = {}
                /\ residuals = {}
                /\ asserted = {}
                /\ pc = Idle

RowStep(findFirst) ==
    \E x \in {solveRowSimple(Sys, 0, findFirst)} :
        /\ rows' = x.s.rows
        /\ columns' = x.s.columns
        /\ pruned' = x.s.pruned
        /\ residuals' = x.s.residuals
        /\ asserted' = x.s.asserted
        /\ result' = IF x.ok THEN "true" ELSE "false"
        /\ emitted' = IF x.ok THEN emitted \cup {Selection(x.s.rows[0])} ELSE emitted
        /\ repeated' = (repeated \/ (x.ok /\ Selection(x.s.rows[0]) \in emitted))
        /\ UNCHANGED <<columnSum, maxColumnValue, closed, complex, failed, rowPermute,
                       precomputed, origRows, origColumns, pc>>

RowFirst == result = "none" /\ RowStep(TRUE)

RowAdvance == result = "true" /\ RowStep(FALSE)

RowNext == RowFirst \/ RowAdvance

RowSpec == RowInit /\ [][RowNext]_vars

\* ------------------------------------------------- solve() step by step
\* solve() one step at a time, after the insertRow / insertColumn calls:
\* the driver's walk over the rows (solveSimple / solveComplex), the sizes loop
\* of solveRowComplex and the two loops of multisetComplex joined by its gotos.
\* pc.at is "solve" (after line 71), "row" (about to call solveRowSimple /
\* solveRowComplex(pc.i, pc.findFirst)), "sizes" (head of the loop at line 582),
\* "backtrack" / "forwards" (the labels, with pc.undone), "idle" (returned).
\* the first call of solve(): lines 68-71, precompute() included
StepFirstCall ==
    /\ ~closed
    /\ pc.at = "idle"
    /\ Len0(rows) > 0
    /\ Len0(columns) > 0
    /\ \E sorted \in sortOutcomes(computeProducts(rows, columnSum)) :
          \E pre \in {precompute(Sys, sorted)} :
              /\ rows' = pre.s.rows
              /\ columns' = pre.s.columns
              /\ closed' = pre.s.closed
              /\ complex' = pre.s.complex
              /\ failed' = pre.s.failed
              /\ rowPermute' = pre.s.rowPermute
              /\ precomputed' = IF pre.ok THEN "ok" ELSE "failed"
              /\ result' = IF pre.ok THEN result ELSE "false"
              /\ pc' = IF pre.ok THEN At("solve", 0, TRUE, 0) ELSE Idle
    /\ UNCHANGED <<columnSum, maxColumnValue, origRows, origColumns, emitted,
                   repeated, pruned, residuals, asserted>>

\* the solver is left as s and control moves to p
Goto(s, p) ==
    /\ rows' = s.rows
    /\ columns' = s.columns
    /\ failed' = s.failed
    /\ pruned' = s.pruned
    /\ residuals' = s.residuals
    /\ asserted' = s.asserted
    /\ pc' = p
    /\ UNCHANGED <<columnSum, maxColumnValue, closed, complex, rowPermute, result,
                   precomputed, origRows, origColumns, emitted, repeated>>

\* lines 431-436 / 612-617: the end of solveSimple / solveComplex
Return(s, ok) ==
    \E s2 \in {IF ok THEN (IF complex THEN solveLastRowComplex(s)
                                      ELSE solveLastRowSimple(s))
                ELSE [s EXCEPT !.failed = TRUE]} :
        /\ rows' = s2.rows
        /\ columns' = s2.columns
        /\ failed' = s2.failed
        /\ pruned' = s2.pruned
        /\ residuals' = s2.residuals
        /\ asserted' = s2.asserted
        /\ result' = IF ok THEN "true" ELSE "false"
        /\ emitted' = IF ok THEN emitted \cup {Matrix(s2)} ELSE emitted
        /\ repeated' = (repeated \/ (ok /\ Matrix(s2) \in emitted))
        /\ pc' = Idle
        /\ UNCHANGED <<columnSum, maxColumnValue, closed, complex, rowPermute,
                       precomputed, origRows, origColumns>>

\* lines 421-429 / 602-610: the walk, once the call for row i has returned ok
RowReturned(s, i, ok) ==
    LET penultimate == Len0(rows) - 2
        s1 == IF ok /\ complex
              THEN [s EXCEPT !.residuals = @ \cup {<<i, s.columns>>}]
              ELSE s
    IN  IF ok
        THEN IF i = penultimate THEN Return(s1, TRUE)
             ELSE Goto(s1, At("row", i + 1, TRUE, 0))
        ELSE IF i = 0 THEN Return(s1, FALSE)
             ELSE Goto(s1, At("row", i - 1, FALSE, 0))

\* a further call of solve(), after one that returned true
StepCall ==
    /\ pc.at = "idle"
    /\ closed
    /\ ~failed
    /\ Goto(Sys, At("solve", 0, FALSE, 0))

\* lines 416-418 / 597-599
StepDriver ==
    /\ pc.at = "solve"
    /\ IF Len0(rows) > 1
       THEN Goto(Sys, At("row", IF pc.findFirst THEN 0 ELSE Len0(rows) - 2,
                         pc.findFirst, 0))
       ELSE Return(Sys, pc.findFirst)

StepRowSimple ==
    /\ pc.at = "row"
    /\ ~complex
    /\ \E x \in {solveRowSimple(Sys, pc.i, pc.findFirst)} : RowReturned(x.s, pc.i, x.ok)

\* lines 542-577 (first visit) and 579 (advance: multisetComplex(.., false))
StepRowComplex ==
    /\ pc.at = "row"
    /\ complex
    /\ IF pc.findFirst
       THEN IF ~viable(Sys, pc.i)
            THEN RowReturned([Sys EXCEPT !.pruned = @ \cup {<<pc.i, columns>>}],
                             pc.i, FALSE)
            ELSE \E v \in {complexFirstVisit(Sys, pc.i)} :
                    IF v.ok THEN Goto(v.s, At("sizes", pc.i, TRUE, 0))
                    ELSE RowReturned(v.s, pc.i, FALSE)
       ELSE IF rows[pc.i].currentSize > 0
            THEN Goto(Sys, At("backtrack", pc.i, FALSE, 0))
            ELSE Goto([Sys EXCEPT !.rows[pc.i] =
                                      [rows[pc.i] EXCEPT !.currentSize = @ + 1]],
                      At("sizes", pc.i, FALSE, 0))

\* lines 582-592
StepSizes ==
    /\ pc.at = "sizes"
    /\ IF rows[pc.i].currentSize <= rows[pc.i].currentMaxSize
       THEN Goto(Sys, At("forwards", pc.i, TRUE, rows[pc.i].currentSize))
       ELSE \E cols \in {applyBase(rows[pc.i], columns, 1)} :
               RowReturned(Assert0([Sys EXCEPT !.columns = cols],
                                   \A j \in DOMAIN cols : cols[j] <= maxColumnValue,
                                   "value too big"),
                           pc.i, FALSE)

\* lines 460-485: a run of the loop at backtrack:
StepBacktrack ==
    /\ pc.at = "backtrack"
    /\ \E p \in {complexBacktrackPass(rows[pc.i], columns, rows[pc.i + 1].soluble,
                                      {}, 0, pc.undone)} :
          IF p.goto = "forwards"
          THEN Goto([Sys EXCEPT !.rows[pc.i] = p.r, !.columns = p.bag,
                                !.asserted = @ \cup p.asserted],
                    At("forwards", pc.i, pc.findFirst, p.undone))
          ELSE Goto([Sys EXCEPT !.rows[pc.i] = [p.r EXCEPT !.currentSize = @ + 1],
                                !.columns = p.bag,
                                !.asserted = @ \cup p.asserted],
                    At("sizes", pc.i, FALSE, 0))

\* lines 487-506: a run of the loop at forwards:
StepForwards ==
    /\ pc.at = "forwards"
    /\ \E p \in {complexForwardsPass(rows[pc.i], columns, rows[pc.i + 1].soluble,
                                     {}, 0, pc.undone)} :
          IF p.goto = "backtrack"
          THEN Goto([Sys EXCEPT !.rows[pc.i] = p.r, !.columns = p.bag,
                                !.asserted = @ \cup p.asserted],
                    At("backtrack", pc.i, pc.findFirst, 0))
          ELSE RowReturned([Sys EXCEPT !.rows[pc.i] = p.r, !.columns = p.bag,
                                       !.asserted = @ \cup p.asserted],
                           pc.i, TRUE)

\* the steps of a call in progress
StepInCall ==
    \/ StepDriver
    \/ StepRowSimple
    \/ StepRowComplex
    \/ StepSizes
    \/ StepBacktrack
    \/ StepForwards

StepRun == StepCall \/ StepInCall

\* the rows of the systems solved step by step: <<coeff, minSize, maxSize>>
StepRowKinds == {<<1, 0, 2>>, <<2, 0, 1>>}

StepInsertRow ==
    /\ InsertRow
    /\ \E k \in StepRowKinds :
          origRows'[Len0(origRows)] = [coeff |-> k[1], minSize |-> k[2], maxSize |-> k[3]]

StepNext == StepInsertRow \/ InsertColumn \/ StepFirstCall \/ StepRun

\* a call is in progress; these are the states in which StepInCall can step
InCall == pc.at # "idle"

InCallIsEnabled == InCall <=> ENABLED <<StepInCall>>_vars

\* a call is in progress or the caller may call solve() again
Running == InCall \/ (closed /\ ~failed)

\* The program is sequential, so a call in progress takes its next step:
\* WF_vars(StepInCall), written out with InCall for ENABLED <<StepInCall>>_vars.
CallFairness == []<>(~InCall) \/ []<><<StepInCall>>_vars

\* The caller, once it has called solve(), goes on calling it while it returns
\* true.
StepSpec == Init /\ [][StepNext]_vars /\ WF_vars(StepCall) /\ CallFairness

\* ------------------------------------------------------------------ claims

\* C1: after every solve() that returns true, for every column j the sum over
\* the rows i of coeff_i * solution(i, j) is the value given to insertColumn.
ColumnBalance ==
    result = "true" =>
        \A j \in DOMAIN origColumns :
            SumVec([i \in DOMAIN origRows |->
                       origRows[i].coeff * solution(Sys, i, j)]) = origColumns[j]

ColumnBalanceWitness ==
    /\ result = "true"
    /\ complex
    /\ Len0(rows) = 3
    /\ Cardinality(emitted) >= 2
    /\ columns # origColumns
    /\ \E i \in DOMAIN rows : rows[i].coeff # rows[0].coeff

\* C2: after every solve() that returns true, every row i in insertion order
\* has minSize_i <= sum over j of solution(i, j) <= maxSize_i (UNBOUNDED read
\* as columnSum), the last sorted row included.
RowSizeBounds ==
    result = "true" =>
        \A i \in DOMAIN origRows :
            LET size == SumVec([j \in DOMAIN origColumns |-> solution(Sys, i, j)])
            IN  CallerRows[i].minSize <= size /\ size <= CallerRows[i].maxSize

RowSizeBoundsWitness ==
    /\ result = "true"
    /\ Len0(rows) = 3
    /\ rowPermute[0] = 2
    /\ origRows[0].minSize > 0
    /\ Cardinality(emitted) >= 2

\* C3: when solve() first returns false, the matrices emitted by the true
\* returns are exactly the nonnegative matrices with column balance and the
\* row-size bounds.
Exhaustive ==
    result = "false" => emitted = Assignments(CallerRows, origColumns)

\* C4: no two solve() calls that return true yield the same matrix.
Unique == ~repeated

UniqueWitness ==
    /\ result = "true"
    /\ Cardinality(emitted) >= 4
    /\ complex

\* C5: once solve() has returned false, failed and closed are and stay true,
\* and every later solve() call stops at the "attempt to solve failed system"
\* assertion instead of returning true.
FailedOnFalse == result \in {"false", "assert"} => (failed /\ closed)

StaysFailed ==
    result \in {"false", "assert"} => (failed' /\ closed' /\ result' = "assert")

FailureTerminal == []FailedOnFalse /\ [][StaysFailed]_vars

FailureTerminalWitness ==
    /\ result = "assert"
    /\ precomputed = "ok"
    /\ emitted # {}

\* C6: after a precomputation that does not fail, the system is simple iff
\* some inserted row has coeff = 1 and maxSize >= maxColumnValue.
SimpleIffUnitRow ==
    precomputed = "ok" =>
        (~complex <=> \E i \in DOMAIN origRows :
                         /\ CallerRows[i].coeff = 1
                         /\ CallerRows[i].maxSize >= maxColumnValue)

\* C7: after a precomputation that succeeds, rows is ordered by descending
\* coeff, rows of equal coeff by ascending maxSize.
SortedDescending ==
    precomputed = "ok" =>
        \A a, b \in DOMAIN rows :
            a < b => /\ rows[a].coeff >= rows[b].coeff
                     /\ (rows[a].coeff = rows[b].coeff
                            => rows[a].maxSize <= rows[b].maxSize)

\* C8: in a complex system, soluble[v].min of sorted row i is INSOLUBLE iff no
\* counts k_i..k_{n-1} within the rows' maxSize sum to v, and otherwise min and
\* max are the smallest and the largest k_i of such a combination.
SolubleCorrect ==
    complex =>
        \A i \in DOMAIN rows : \A v \in 0..maxColumnValue :
            LET ks == Counts(rows, i, v)
                e == rows[i].soluble[v]
            IN  /\ (e.min = INSOLUBLE) <=> (ks = {})
                /\ ks # {} => (e.min = SetMin(ks) /\ e.max = SetMax(ks))

SolubleCorrectWitness ==
    /\ complex
    /\ Len0(rows) = 3
    /\ \E i \in DOMAIN rows : \E v \in 0..maxColumnValue :
          rows[i].soluble[v].min = INSOLUBLE
    /\ \E i \in {0, 1} : \E v \in 0..maxColumnValue :
          /\ rows[i].soluble[v].min > 0
          /\ rows[i].soluble[v].max > rows[i].soluble[v].min

\* C9: whenever viable(k) is false at the first visit of sorted row k, no
\* assignment of rows k..n-1 consumes the current bag exactly within those
\* rows' size bounds.
ViableSound ==
    \A p \in pruned : Assignments(Suffix(rows, p[1]), p[2]) = {}

\* C10: for a row first-visited on a bag, the first selection and the
\* successive advances up to the one that returns false produce every vector
\* extra with 0 <= extra_j <= floor(columns_j / coeff) and minSize' <= sum of
\* extra_j <= maxSize', once and only once (RowSpec).
WindowMin ==
    Max2(rows[0].minSize,
         ceilingDivision(SumVec(origColumns) - rows[0].maxLeave, rows[0].coeff))

WindowMax ==
    Min2(Min2(SumVec([j \in DOMAIN origColumns |-> origColumns[j] \div rows[0].coeff]),
              rows[0].maxSize),
         floorDivision(SumVec(origColumns) - rows[0].minLeave, rows[0].coeff))

WindowSelections ==
    {e \in [DOMAIN origColumns -> 0..MaxBagSum + 1] :
        /\ \A j \in DOMAIN origColumns : e[j] <= origColumns[j] \div rows[0].coeff
        /\ WindowMin <= SumVec(e)
        /\ SumVec(e) <= WindowMax}

RowExactlyOnce ==
    /\ ~repeated
    /\ emitted \subseteq WindowSelections
    /\ result = "false" => emitted = WindowSelections

RowExactlyOnceWitness ==
    /\ result = "false"
    /\ Len0(columns) >= 2
    /\ WindowMin > 0
    /\ WindowMin < WindowMax
    /\ Cardinality(emitted) >= 4

\* C11: the selections of one row activation come with non-decreasing size,
\* and among selections of one size each is greater than the one before it.
\* The claim compares (extra_0, ..., extra_{m-1}) with column 0 most
\* significant (LexLess); the code's order is the one with column m-1 most
\* significant (ColexLess) (RowSpec).
LexLess(a, b) ==
    \E j \in DOMAIN a : /\ a[j] < b[j]
                        /\ \A i \in DOMAIN a : i < j => a[i] = b[i]

ColexLess(a, b) ==
    \E j \in DOMAIN a : /\ a[j] < b[j]
                        /\ \A i \in DOMAIN a : i > j => a[i] = b[i]

LexStep ==
    (result = "true" /\ result' = "true") =>
        /\ SumVec(Selection(rows[0])) <= SumVec(Selection(rows'[0]))
        /\ (SumVec(Selection(rows[0])) = SumVec(Selection(rows'[0]))
               => LexLess(Selection(rows[0]), Selection(rows'[0])))

ColexStep ==
    (result = "true" /\ result' = "true") =>
        /\ SumVec(Selection(rows[0])) <= SumVec(Selection(rows'[0]))
        /\ (SumVec(Selection(rows[0])) = SumVec(Selection(rows'[0]))
               => ColexLess(Selection(rows[0]), Selection(rows'[0])))

CanonicalOrderLex == [][LexStep]_vars

CanonicalOrderColex == [][ColexStep]_vars

CanonicalOrderWitness ==
    /\ result = "true"
    /\ Len0(columns) >= 3
    /\ \E e \in emitted : SumVec(e) < SumVec(Selection(rows[0]))
    /\ Cardinality({e \in emitted : SumVec(e) = SumVec(Selection(rows[0]))}) >= 3

\* C12: whenever solveRowComplex has returned true for sorted row k, every
\* column it left is soluble for row k + 1; the assertions "min insoluble" and
\* "solubility bug" never fire; and after a solve() that returns true on the
\* complex path the last row's entry times its coeff is the residual column.
ResidualsSoluble ==
    /\ \A p \in residuals : \A j \in DOMAIN p[2] :
          /\ p[2][j] \in DOMAIN rows[p[1] + 1].soluble
          /\ rows[p[1] + 1].soluble[p[2][j]].min # INSOLUBLE
    /\ asserted \cap {"min insoluble", "solubility bug"} = {}
    /\ (complex /\ result = "true") =>
          \A j \in DOMAIN columns :
              LET last == rows[Len0(rows) - 1]
              IN  /\ last.selection[j].extra = last.soluble[columns[j]].min
                  /\ last.selection[j].extra * last.coeff = columns[j]

ResidualsSolubleWitness ==
    /\ complex
    /\ result = "true"
    /\ Len0(rows) = 3
    /\ Cardinality(residuals) >= 4
    /\ \E j \in DOMAIN columns : columns[j] > 0
    /\ \E i \in DOMAIN rows : \E v \in 0..maxColumnValue :
          rows[i].soluble[v].min = INSOLUBLE

\* C13: whenever solve() returns false, on either path, every columns[j] is
\* again the value passed to insertColumn.
BagRestored == result = "false" => columns = origColumns

BagRestoredWitness ==
    /\ result = "false"
    /\ complex
    /\ Len0(rows) = 3
    /\ Cardinality(emitted) >= 2
    /\ \E i \in DOMAIN rows : \E j \in DOMAIN rows[i].selection :
          rows[i].selection[j].base > 0

\* C14: every solve() call on a solver that has not failed returns, and after
\* finitely many calls that return true a call returns false (StepSpec): from
\* every state in which a call is in progress or the caller may call solve()
\* again, the solver gets back to the caller, failed. The row walk and the
\* goto loop of multisetComplex are steps of the call in progress.
Terminates == Running ~> (pc.at = "idle" /\ failed)

TerminatesWitness ==
    /\ failed
    /\ pc.at = "idle"
    /\ complex
    /\ Len0(rows) = 3
    /\ Cardinality(emitted) >= 2
    /\ Cardinality(residuals) >= 4

====
